---- MODULE Spec2Model ----
(***************************************************************************)
(* CompactedTopicProcessor<Key, Value>                                     *)
(* (include/cppkafka/utils/compacted_topic_processor.h).                   *)
(*                                                                         *)
(* One processor on one Consumer.  The processor's fields are the          *)
(* variables named as in the class; the Consumer (poll, the assignment     *)
(* callback slot, assign) is the supplied client abstraction.  Every step  *)
(* leaves a record of what it did (the callbacks it invoked, in order) in  *)
(* the history variables `op`, `trace`, `threw`, `pre_offsets`, `hook_in`  *)
(* and `hook_out`, which the properties read.  Processors stacked on the   *)
(* same Consumer, each chaining to the callback it found, are the          *)
(* variables `installed`, `originals`, `lifetimes`, `stack`, `calls`.      *)
(***************************************************************************)
EXTENDS Integers, Sequences, FiniteSets, TLC

\* ------------------------------------------------------------------ bounds
MaxOffset == 1
MaxCount == 2
MaxProcessors == 3

\* --------------------------------------------------------------- constants
\* TopicPartition's "no offset requested" value, as the client hands it out
OFFSET_INVALID == -1001

\* the topics the consumer subscribes to, in std::string order, and their partitions
Topics == <<"t">>
Partitions == {0, 1}

\* TopicPartition identity: (topic, partition); the offset is not part of it.
\* The processor keeps one independent entry per identity; two identities let one
\* rebalance resume one partition while it clears the other.
TopicPartitions == { <<Topics[i], p>> : i \in 1..Len(Topics), p \in Partitions }

Offsets == 0..MaxOffset

None == "none"

\* ---------------------------------------------------------------- variables
VARIABLES
    \* Consumer (client)
    assignment_callback_,           \* the installed assignment callback: "none", "user" or "hook"
    assignment,                     \* assigned TopicPartition -> next offset poll() fetches
    \* CompactedTopicProcessor
    lifetime,                       \* "unborn", "alive" or "destroyed"
    key_decoder_,                   \* TRUE iff the std::function holds a callable
    value_decoder_,
    event_handler_,
    error_handler_,
    partition_offsets_,             \* std::map<TopicPartition, int64_t>
    original_assignment_callback_,  \* the callback saved by the constructor
    \* history of the last step
    user_callback,                  \* the callback the user had installed on the client
    op,                             \* the operation that ran
    message,                        \* the message poll() returned to it
    trace,                          \* the effects of that operation, in order
    threw,                          \* TRUE iff it left by an exception
    pre_offsets,                    \* partition_offsets_ when it was entered
    hook_in,                        \* the list handed to the installed callback
    hook_out,                       \* the list when the installed callback returned
    \* counters of the whole run
    polled_ok,                      \* non-error messages polled by process_event
    dispatched,                     \* events given to the event handler
    dispatched_set_delete,          \* SET_ELEMENT and DELETE_ELEMENT events among them
    \* ghosts of the whole run
    passed,                         \* the last undecodable message handled, NoMessage if none
    delivered,                      \* the partitions of the last list handed to the hook,
                                    \* kept for as long as `proviso` holds
    proviso,                        \* TRUE iff every message so far was of a partition of `delivered`
    hook_threw,                     \* TRUE iff a rebalance has left the hook by an exception
    \* processors stacked on one Consumer
    installed,                      \* the client's installed assignment callback
    originals,                      \* processor -> its original_assignment_callback_
    lifetimes,                      \* processor -> "unborn", "alive" or "destroyed"
    stack,                          \* the live processors, in construction order
    in_order,                       \* TRUE iff each destruction took the last one constructed
    calls                           \* the callbacks the last rebalance invoked, in order

client == <<assignment_callback_, assignment, user_callback>>
config == <<key_decoder_, value_decoder_, event_handler_, error_handler_>>
processor == <<lifetime, partition_offsets_, original_assignment_callback_>>
history == <<op, message, trace, threw, pre_offsets, hook_in, hook_out>>
counters == <<polled_ok, dispatched, dispatched_set_delete>>
stacked == <<installed, originals, lifetimes, stack, in_order, calls>>
ghosts == <<passed, delivered, proviso, hook_threw, stacked>>
vars == <<client, config, processor, history, counters, ghosts>>

\* ------------------------------------------------------------------ helpers
EmptyMap == [tp \in {} |-> 0]

\* m with its entry for tp set to v (std::map::operator[] followed by assignment)
MapPut(m, tp, v) == [x \in (DOMAIN m) \cup {tp} |-> IF x = tp THEN v ELSE m[x]]

\* m without its entry for tp (std::map::erase)
MapErase(m, tp) == [x \in (DOMAIN m) \ {tp} |-> m[x]]

TopicIndex(t) == CHOOSE i \in 1..Len(Topics) : Topics[i] = t

\* TopicPartition::operator< : by topic, then by partition; never by offset
TopicPartitionLess(a, b) ==
    \/ TopicIndex(a[1]) < TopicIndex(b[1])
    \/ (a[1] = b[1] /\ a[2] < b[2])

\* the keys of a std::map / std::set in iteration order
RECURSIVE InOrder(_)
InOrder(S) ==
    IF S = {} THEN <<>>
    ELSE LET first == CHOOSE x \in S : \A y \in S : ~TopicPartitionLess(y, x)
         IN  <<first>> \o InOrder(S \ {first})

\* an effect recorded in `trace`
Effect(kind, tp, type, key, value, offset) ==
    [kind |-> kind, tp |-> tp, type |-> type, key |-> key, value |-> value, offset |-> offset]

NoTP == <<"", -1>>

\* ----------------------------------------------------------------- messages
KeyBytes == {"a", "?"}
Payloads == {"", "x", "?"}

\* the user's key decoder: std::optional<Key>(const Buffer&)
KeyDecoder(bytes) == IF bytes = "a" THEN "A" ELSE None

\* the user's value decoder: std::optional<Value>(const Key&, const Buffer&)
ValueDecoder(key, bytes) == IF key = "A" /\ bytes = "x" THEN "X" ELSE None

Message(kind, tp, offset, key, payload) ==
    [kind |-> kind, tp |-> tp, offset |-> offset, key |-> key, payload |-> payload]

\* poll() timed out: the Message holds no handle
NoMessage == Message("none", NoTP, OFFSET_INVALID, "", "")

\* Message::get_error() is set
IsError(m) == m.kind \in {"eof", "error"}

\* Message::is_eof()
IsEof(m) == m.kind = "eof"

\* Buffer::operator bool: the payload holds at least one byte
HasPayload(m) == m.payload # ""

\* what Consumer::poll() can return when the client's assignment is asg
PollResults(asg) ==
    {NoMessage}
    \cup { Message("ok", tp, asg[tp], k, p) :
             tp \in {x \in DOMAIN asg : asg[x] <= MaxOffset}, k \in KeyBytes, p \in Payloads }
    \cup { Message("eof", tp, asg[tp], "", "") : tp \in DOMAIN asg }
    \cup { Message("error", tp, OFFSET_INVALID, "", "") : tp \in (DOMAIN asg) \cup {NoTP} }

\* the client's fetch position once poll() has returned m
Fetched(asg, m) ==
    IF m.kind = "ok" THEN [asg EXCEPT ![m.tp] = m.offset + 1] ELSE asg

\* ------------------------------------------------------------------- events
Event(type, tp, key, value) ==
    [type |-> type, topic |-> tp[1], partition |-> tp[2], key |-> key, value |-> value]

\* effects a step records in `trace`
Dispatched(ev) ==
    Effect("event", <<ev.topic, ev.partition>>, ev.type, ev.key, ev.value, OFFSET_INVALID)
ValueDecoderCalled(m) == Effect("value_decoder", m.tp, "", m.key, m.payload, m.offset)
ErrorHandlerCalled(m) == Effect("error_handler", m.tp, m.kind, m.key, m.payload, m.offset)
UserCallbackCalled(seek) == Effect("user_callback", NoTP, "", None, None, seek)
OffsetSet(tp, offset) == Effect("set_offset", tp, "", None, None, offset)
Erased(tp) == Effect("erase", tp, "", None, None, OFFSET_INVALID)
UsedAfterDestroy == Effect("use_after_destroy", NoTP, "", None, None, OFFSET_INVALID)

Outcome(tr, thrown) == [trace |-> tr, threw |-> thrown]

\* faulty variant: an empty event_handler_ is skipped, as error_handler_ is on line 305
Dispatch_Ignored(tr, ev) ==
    IF event_handler_ THEN Outcome(Append(tr, Dispatched(ev)), FALSE)
    ELSE Outcome(tr, FALSE)

\* event_handler_(ev) after the effects tr: an empty std::function throws
\* std::bad_function_call, a set one receives the event
Dispatch(tr, ev) ==
    IF event_handler_ THEN Outcome(Append(tr, Dispatched(ev)), FALSE)
    ELSE Outcome(tr, TRUE)

\* ------------------------------------------------------------ process_event
\* faulty variant: the value is decoded before the payload is looked at
GenerateEvent_DecodeFirst(m, key) ==
    IF ~value_decoder_ THEN Outcome(<<>>, TRUE)
    ELSE LET value == ValueDecoder(key, m.payload)
             called == <<ValueDecoderCalled(m)>>
         IN  IF HasPayload(m) THEN
                 IF value # None
                 THEN Dispatch(called, Event("SET_ELEMENT", m.tp, key, value))
                 ELSE Outcome(called, FALSE)
             ELSE Dispatch(called, Event("DELETE_ELEMENT", m.tp, key, None))

\* faulty variant: a value that does not decode is taken for a tombstone
GenerateEvent_UndecodableDeletes(m, key) ==
    IF HasPayload(m) /\ ~value_decoder_ THEN Outcome(<<>>, TRUE)
    ELSE LET value == IF HasPayload(m) THEN ValueDecoder(key, m.payload) ELSE None
             called == IF HasPayload(m) THEN <<ValueDecoderCalled(m)>> ELSE <<>>
         IN  IF value # None
             THEN Dispatch(called, Event("SET_ELEMENT", m.tp, key, value))
             ELSE Dispatch(called, Event("DELETE_ELEMENT", m.tp, key, None))

\* faulty variant: the `else` of line 290 is lost, DELETE_ELEMENT follows every message
GenerateEvent_NoElse(m, key) ==
    LET first ==
            IF HasPayload(m) THEN
                IF ~value_decoder_ THEN Outcome(<<>>, TRUE)
                ELSE LET value == ValueDecoder(key, m.payload)
                         called == <<ValueDecoderCalled(m)>>
                     IN  IF value # None
                         THEN Dispatch(called, Event("SET_ELEMENT", m.tp, key, value))
                         ELSE Outcome(called, FALSE)
            ELSE Outcome(<<>>, FALSE)
    IN  IF first.threw THEN first
        ELSE Dispatch(first.trace, Event("DELETE_ELEMENT", m.tp, key, None))

\* lines 281-294: the key decoded
GenerateEvent(m, key) ==
    IF HasPayload(m) THEN
        IF ~value_decoder_ THEN Outcome(<<>>, TRUE)
        ELSE LET value == ValueDecoder(key, m.payload)
                 called == <<ValueDecoderCalled(m)>>
             IN  IF value # None
                 THEN Dispatch(called, Event("SET_ELEMENT", m.tp, key, value))
                 ELSE Outcome(called, FALSE)
    ELSE Dispatch(<<>>, Event("DELETE_ELEMENT", m.tp, key, None))

\* lines 279-295: decode the key and, when it decodes, generate the event
DecodeMessage(m) ==
    IF ~key_decoder_ THEN Outcome(<<>>, TRUE)
    ELSE LET key == KeyDecoder(m.key)
         IN  IF key # None THEN GenerateEvent(m, key) ELSE Outcome(<<>>, FALSE)

\* lines 296-298: store the offset for this topic/partition
StoreOffset(offsets, m) == MapPut(offsets, m.tp, m.offset)

\* faulty variant: is_eof() is not looked at, every error goes to the error handler
HandleError_EofAsError(m) ==
    IF error_handler_ THEN Outcome(<<ErrorHandlerCalled(m)>>, FALSE)
    ELSE Outcome(<<>>, FALSE)

\* faulty variant: the error handler is called without the check of line 305
HandleError_Unchecked(m) ==
    IF IsEof(m) THEN Dispatch(<<>>, Event("REACHED_EOF", m.tp, None, None))
    ELSE IF error_handler_ THEN Outcome(<<ErrorHandlerCalled(m)>>, FALSE)
    ELSE Outcome(<<>>, TRUE)

\* lines 300-308: a message that carries an error
HandleError(m) ==
    IF IsEof(m) THEN Dispatch(<<>>, Event("REACHED_EOF", m.tp, None, None))
    ELSE IF error_handler_ THEN Outcome(<<ErrorHandlerCalled(m)>>, FALSE)
    ELSE Outcome(<<>>, FALSE)

\* faulty variant: the offset is stored inside `if (key)`, where the event is made
ProcessMessage_StoreWhenDecoded(m, offsets) ==
    IF m.kind = "none" THEN [offsets |-> offsets, trace |-> <<>>, threw |-> FALSE]
    ELSE IF ~IsError(m) THEN
        LET d == DecodeMessage(m)
        IN  [offsets |-> IF d.threw \/ KeyDecoder(m.key) = None
                         THEN offsets ELSE StoreOffset(offsets, m),
             trace |-> d.trace, threw |-> d.threw]
    ELSE LET e == HandleError(m)
         IN  [offsets |-> offsets, trace |-> e.trace, threw |-> e.threw]

\* faulty variant: the offset is stored for an end-of-partition message as well
ProcessMessage_StoreEof(m, offsets) ==
    IF m.kind = "none" THEN [offsets |-> offsets, trace |-> <<>>, threw |-> FALSE]
    ELSE IF ~IsError(m) THEN
        LET d == DecodeMessage(m)
        IN  [offsets |-> IF d.threw THEN offsets ELSE StoreOffset(offsets, m),
             trace |-> d.trace, threw |-> d.threw]
    ELSE LET e == HandleError(m)
         IN  [offsets |-> IF IsEof(m) /\ ~e.threw THEN StoreOffset(offsets, m) ELSE offsets,
              trace |-> e.trace, threw |-> e.threw]

\* lines 277-309: what process_event does with the polled message m
ProcessMessage(m, offsets) ==
    IF m.kind = "none" THEN [offsets |-> offsets, trace |-> <<>>, threw |-> FALSE]
    ELSE IF ~IsError(m) THEN
        LET d == DecodeMessage(m)
        IN  [offsets |-> IF d.threw THEN offsets ELSE StoreOffset(offsets, m),
             trace |-> d.trace, threw |-> d.threw]
    ELSE LET e == HandleError(m)
         IN  [offsets |-> offsets, trace |-> e.trace, threw |-> e.threw]

\* ------------------------------------------------------------ on_assignment
\* a TopicPartitionList entry
Entry(tp, offset) == [tp |-> tp, offset |-> offset]

\* the list the client hands to the assignment callback for the partitions S
ClientList(S) == [i \in 1..Cardinality(S) |-> Entry(InOrder(S)[i], OFFSET_INVALID)]

ListPartitions(list) == { list[i].tp : i \in 1..Len(list) }

\* the user's assignment callback: it may mutate the list; seek is the offset it
\* writes to the entries (OFFSET_INVALID: it leaves them alone)
UserCallback(list, seek) ==
    [i \in 1..Len(list) |->
        IF seek = OFFSET_INVALID THEN list[i] ELSE Entry(list[i].tp, seek)]

\* lines 314-316: invoke the saved callback, if any
InvokeOriginal(list, seek) ==
    IF original_assignment_callback_ # "none"
    THEN [list |-> UserCallback(list, seek), trace |-> <<UserCallbackCalled(seek)>>]
    ELSE [list |-> list, trace |-> <<>>]

\* faulty variant: only an entry without a requested offset is restored
Tracked_Unrequested(entry, offsets) ==
    entry.tp \in DOMAIN offsets /\ entry.offset = OFFSET_INVALID

\* lines 321-322: partition_offsets_.find(topic_partition) finds an entry
Tracked(entry, offsets) == entry.tp \in DOMAIN offsets

\* faulty variant: an entry that is not tracked is sent back to the start of the log
RestoreOffset_ResetUntracked(entry, offsets) ==
    IF Tracked(entry, offsets) THEN Entry(entry.tp, offsets[entry.tp]) ELSE Entry(entry.tp, 0)

\* lines 321-324: one entry of the new assignment
RestoreOffset(entry, offsets) ==
    IF Tracked(entry, offsets) THEN Entry(entry.tp, offsets[entry.tp]) ELSE entry

\* the set_offset calls of lines 320-327, in list order
RECURSIVE RestoreTrace(_, _)
RestoreTrace(list, offsets) ==
    IF list = <<>> THEN <<>>
    ELSE LET e == Head(list)
             r == RestoreOffset(e, offsets)
         IN  (IF Tracked(e, offsets) THEN <<OffsetSet(r.tp, r.offset)>> ELSE <<>>)
             \o RestoreTrace(Tail(list), offsets)

\* lines 317-327: restore the offsets and collect partitions_found
RestoreOffsets(list, offsets) ==
    [list |-> [i \in 1..Len(list) |-> RestoreOffset(list[i], offsets)],
     trace |-> RestoreTrace(list, offsets),
     found |-> ListPartitions(list)]

\* faulty variant: the iterator is advanced, the entry is not erased
EraseEntry_Keep(offsets, tp) == offsets

\* line 336: partition_offsets_.erase(iter)
EraseEntry(offsets, tp) == MapErase(offsets, tp)

\* faulty variant: the entry is erased before CLEAR_ELEMENTS is dispatched for it
RECURSIVE ClearCache_EraseFirst(_, _, _, _)
ClearCache_EraseFirst(keys, found, offsets, tr) ==
    IF keys = <<>> THEN [offsets |-> offsets, trace |-> tr, threw |-> FALSE]
    ELSE LET tp == Head(keys)
         IN  IF tp \notin found THEN
                 LET erased == EraseEntry(offsets, tp)
                     d == Dispatch(Append(tr, Erased(tp)),
                                   Event("CLEAR_ELEMENTS", tp, None, None))
                 IN  IF d.threw THEN [offsets |-> erased, trace |-> d.trace, threw |-> TRUE]
                     ELSE ClearCache_EraseFirst(Tail(keys), found, erased, d.trace)
             ELSE ClearCache_EraseFirst(Tail(keys), found, offsets, tr)

\* lines 330-341: the sweep over partition_offsets_, keys the entries still to visit
RECURSIVE ClearCache(_, _, _, _)
ClearCache(keys, found, offsets, tr) ==
    IF keys = <<>> THEN [offsets |-> offsets, trace |-> tr, threw |-> FALSE]
    ELSE LET tp == Head(keys)
         IN  IF tp \notin found THEN
                 LET d == Dispatch(tr, Event("CLEAR_ELEMENTS", tp, None, None))
                 IN  IF d.threw THEN [offsets |-> offsets, trace |-> d.trace, threw |-> TRUE]
                     ELSE ClearCache(Tail(keys), found, EraseEntry(offsets, tp),
                                     Append(d.trace, Erased(tp)))
             ELSE ClearCache(Tail(keys), found, offsets, tr)

\* faulty variant: the saved callback is invoked after the processor's own work
on_assignment_ChainLast(list, seek, offsets) ==
    LET restored == RestoreOffsets(list, offsets)
        swept == ClearCache(InOrder(DOMAIN offsets), restored.found, offsets, restored.trace)
        chained == InvokeOriginal(restored.list, seek)
    IN  [list |-> IF swept.threw THEN restored.list ELSE chained.list,
         offsets |-> swept.offsets,
         trace |-> IF swept.threw THEN swept.trace ELSE swept.trace \o chained.trace,
         threw |-> swept.threw]

\* lines 312-342
on_assignment(list, seek, offsets) ==
    LET chained == InvokeOriginal(list, seek)
        restored == RestoreOffsets(chained.list, offsets)
        swept == ClearCache(InOrder(DOMAIN offsets), restored.found, offsets,
                            chained.trace \o restored.trace)
    IN  [list |-> restored.list, offsets |-> swept.offsets,
         trace |-> swept.trace, threw |-> swept.threw]

\* ------------------------------------------------------------------- client
\* what invoking the installed assignment callback on list can do
CallbackOutcomes(list, seek) ==
    LET nothing == [list |-> list, offsets |-> partition_offsets_,
                    trace |-> <<>>, threw |-> FALSE]
    IN  CASE assignment_callback_ = "none" -> {nothing}
          [] assignment_callback_ = "user" ->
                {[nothing EXCEPT !.list = UserCallback(list, seek),
                                 !.trace = <<UserCallbackCalled(seek)>>]}
          [] assignment_callback_ = "hook" /\ lifetime = "alive" ->
                {on_assignment(list, seek, partition_offsets_)}
          \* the lambda's captured `this` dangles: undefined behaviour
          [] OTHER ->
                LET stale == on_assignment(list, seek, partition_offsets_)
                IN  {[nothing EXCEPT !.trace = <<UsedAfterDestroy>>],
                     [stale EXCEPT !.trace = <<UsedAfterDestroy>> \o @]}

\* Consumer::assign: an entry without an offset starts at the beginning of the log
Assigned(list) ==
    [tp \in ListPartitions(list) |->
        LET e == CHOOSE x \in {list[i] : i \in 1..Len(list)} : x.tp = tp
        IN  IF e.offset = OFFSET_INVALID THEN 0 ELSE e.offset]

\* the events among the effects tr whose type is in types
RECURSIVE CountEvents(_, _)
CountEvents(tr, types) ==
    IF tr = <<>> THEN 0
    ELSE (IF Head(tr).kind = "event" /\ Head(tr).type \in types THEN 1 ELSE 0)
         + CountEvents(Tail(tr), types)

EventTypes == {"SET_ELEMENT", "DELETE_ELEMENT", "CLEAR_ELEMENTS", "REACHED_EOF"}

NoCount == UNCHANGED <<counters, ghosts>>

\* the run's counters after a step, for runs of at most MaxCount counted steps
Count ==
    /\ polled_ok < MaxCount
    /\ dispatched < MaxCount
    /\ polled_ok' = polled_ok + (IF op' = "process_event" /\ message'.kind = "ok" THEN 1 ELSE 0)
    /\ dispatched' = dispatched + CountEvents(trace', EventTypes)
    /\ dispatched_set_delete' =
            dispatched_set_delete + CountEvents(trace', {"SET_ELEMENT", "DELETE_ELEMENT"})
    /\ UNCHANGED ghosts

\* m is not decoded: its key does not decode, or its payload does not
Undecodable(m) ==
    LET key == KeyDecoder(m.key)
    IN  key = None \/ (HasPayload(m) /\ ValueDecoder(key, m.payload) = None)

\* the last undecodable message process_event has handled, for as long as its
\* partition stays tracked
Passed ==
    /\ passed' =
            IF op' = "process_event" /\ message'.kind = "ok" /\ ~threw' /\ Undecodable(message')
            THEN message'
            ELSE IF passed.tp \in DOMAIN partition_offsets_' THEN passed
            ELSE NoMessage
    /\ UNCHANGED <<counters, delivered, proviso, hook_threw, stacked>>

\* the most recent assignment delivered to the hook, whether poll() has only returned
\* messages of its partitions, and whether the hook has thrown
Delivered ==
    /\ proviso' =
            (proviso /\ ((op' = "process_event" /\ message'.kind = "ok") =>
                            message'.tp \in delivered))
    /\ delivered' =
            IF ~proviso' THEN {}
            ELSE IF op' = "rebalance" /\ assignment_callback_ = "hook" /\ lifetime = "alive"
            THEN ListPartitions(hook_in')
            ELSE delivered
    /\ hook_threw' = (hook_threw \/ (op' = "rebalance" /\ threw'))
    /\ UNCHANGED <<counters, passed, stacked>>

\* ------------------------------------------------------ stacked processors
Processors == 1..MaxProcessors

\* an assignment callback: none, the user's, or the lambda of a processor's constructor
Callback(kind) == [kind |-> kind, owner |-> 0]
HookOf(i) == [kind |-> "hook", owner |-> i]

\* an invocation recorded in `calls`
Called(kind, owner) == [kind |-> kind, owner |-> owner]

\* line 242: the callback the constructor of a stacked processor saves
SavedStacked(current) == current

\* lines 243-245: the callback it installs
InstalledStacked(i) == HookOf(i)

\* faulty variant: the destructor leaves the client's callback as it is
RestoredStacked_Keep(i) == installed

\* line 251: the callback the destructor of processor i puts back
RestoredStacked(i) == originals[i]

\* what invoking the callback cb can do.  The hook of a live processor invokes the
\* callback it saved (lines 314-316) and then finds no entry to restore or to clear;
\* the lambda of a destroyed processor dangles: undefined behaviour
RECURSIVE Invoke(_)
Invoke(cb) ==
    CASE cb.kind = "none" -> {<<>>}
      [] cb.kind = "user" -> {<<Called("user", 0)>>}
      [] cb.kind = "hook" /\ lifetimes[cb.owner] = "alive" ->
            { <<Called("hook", cb.owner)>> \o rest : rest \in Invoke(originals[cb.owner]) }
      [] OTHER ->
            {<<Called("use_after_destroy", cb.owner)>>}
            \cup { <<Called("use_after_destroy", cb.owner)>> \o rest :
                     rest \in Invoke(originals[cb.owner]) }

\* ------------------------------------------------------------------ actions
Init ==
    /\ user_callback \in {"none", "user"}
    /\ assignment_callback_ = user_callback
    /\ assignment = EmptyMap
    /\ lifetime = "unborn"
    /\ key_decoder_ = FALSE
    /\ value_decoder_ = FALSE
    /\ event_handler_ = FALSE
    /\ error_handler_ = FALSE
    /\ partition_offsets_ = EmptyMap
    /\ original_assignment_callback_ = "none"
    /\ op = "init"
    /\ message = NoMessage
    /\ trace = <<>>
    /\ threw = FALSE
    /\ pre_offsets = EmptyMap
    /\ hook_in = <<>>
    /\ hook_out = <<>>
    /\ polled_ok = 0
    /\ dispatched = 0
    /\ dispatched_set_delete = 0
    /\ passed = NoMessage
    /\ delivered = {}
    /\ proviso = TRUE
    /\ hook_threw = FALSE
    /\ installed = Callback(user_callback)
    /\ originals = [i \in Processors |-> Callback("none")]
    /\ lifetimes = [i \in Processors |-> "unborn"]
    /\ stack = <<>>
    /\ in_order = TRUE
    /\ calls = <<>>

\* a step that polls nothing and invokes no callback
Quiet(name) ==
    /\ op' = name
    /\ message' = NoMessage
    /\ trace' = <<>>
    /\ threw' = FALSE
    /\ pre_offsets' = partition_offsets_
    /\ hook_in' = <<>>
    /\ hook_out' = <<>>

\* line 243: the callback the constructor installs on the consumer
InstalledCallback(current) == "hook"

\* line 242: the callback the constructor saves
SavedCallback(current) == current

\* lines 238-246: CompactedTopicProcessor(Consumer&)
Construct ==
    /\ lifetime = "unborn"
    /\ original_assignment_callback_' = SavedCallback(assignment_callback_)
    /\ assignment_callback_' = InstalledCallback(assignment_callback_)
    /\ lifetime' = "alive"
    /\ key_decoder_' = FALSE
    /\ value_decoder_' = FALSE
    /\ event_handler_' = FALSE
    /\ error_handler_' = FALSE
    /\ partition_offsets_' = EmptyMap
    /\ Quiet("construct")
    /\ UNCHANGED <<assignment, user_callback, counters, ghosts>>

\* faulty variant: the destructor does not put the saved callback back
RestoredCallback_Keep(saved) == assignment_callback_

\* line 251: the callback the destructor leaves on the consumer
RestoredCallback(saved) == saved

\* lines 248-252: ~CompactedTopicProcessor(), then the members' destructors
Destroy ==
    /\ lifetime = "alive"
    /\ assignment_callback_' = RestoredCallback(original_assignment_callback_)
    /\ lifetime' = "destroyed"
    /\ key_decoder_' = FALSE
    /\ value_decoder_' = FALSE
    /\ event_handler_' = FALSE
    /\ error_handler_' = FALSE
    /\ partition_offsets_' = EmptyMap
    /\ original_assignment_callback_' = "none"
    /\ Quiet("destroy")
    /\ UNCHANGED <<assignment, user_callback, counters, ghosts>>

\* lines 254-257
set_key_decoder ==
    /\ lifetime = "alive"
    /\ key_decoder_' = TRUE
    /\ Quiet("setter")
    /\ UNCHANGED <<client, processor, counters, ghosts, value_decoder_, event_handler_, error_handler_>>

\* lines 259-262
set_value_decoder ==
    /\ lifetime = "alive"
    /\ value_decoder_' = TRUE
    /\ Quiet("setter")
    /\ UNCHANGED <<client, processor, counters, ghosts, key_decoder_, event_handler_, error_handler_>>

\* lines 264-267
set_event_handler ==
    /\ lifetime = "alive"
    /\ event_handler_' = TRUE
    /\ Quiet("setter")
    /\ UNCHANGED <<client, processor, counters, ghosts, key_decoder_, value_decoder_, error_handler_>>

\* lines 269-272
set_error_handler ==
    /\ lifetime = "alive"
    /\ error_handler_' = TRUE
    /\ Quiet("setter")
    /\ UNCHANGED <<client, processor, counters, ghosts, key_decoder_, value_decoder_, event_handler_>>

\* lines 274-310: poll one message and process it
ProcessEventStep ==
    /\ lifetime = "alive"
    /\ \E m \in PollResults(assignment) :
        LET r == ProcessMessage(m, partition_offsets_)
        IN  /\ assignment' = Fetched(assignment, m)
            /\ partition_offsets_' = r.offsets
            /\ op' = "process_event"
            /\ message' = m
            /\ trace' = r.trace
            /\ threw' = r.threw
    /\ pre_offsets' = partition_offsets_
    /\ hook_in' = <<>>
    /\ hook_out' = <<>>
    /\ UNCHANGED <<assignment_callback_, user_callback, config, lifetime,
                   original_assignment_callback_>>

\* the offsets the user's callback can write: none unless there is such a callback
Seeks == IF user_callback = "none" THEN {OFFSET_INVALID} ELSE {OFFSET_INVALID} \cup Offsets

\* Consumer::handle_rebalance, served inside a poll() of the client: the client
\* invokes the installed assignment callback on the new list, then assigns it
RebalanceStep ==
    \E S \in SUBSET TopicPartitions : \E seek \in Seeks :
    \E r \in CallbackOutcomes(ClientList(S), seek) :
        /\ assignment' = IF r.threw THEN assignment ELSE Assigned(r.list)
        /\ partition_offsets_' = r.offsets
        /\ op' = "rebalance"
        /\ message' = NoMessage
        /\ trace' = r.trace
        /\ threw' = r.threw
        /\ pre_offsets' = partition_offsets_
        /\ hook_in' = ClientList(S)
        /\ hook_out' = r.list
        /\ UNCHANGED <<assignment_callback_, user_callback, config, lifetime,
                       original_assignment_callback_>>

process_event == ProcessEventStep /\ NoCount

Rebalance == RebalanceStep /\ NoCount

Next ==
    \/ Construct
    \/ Destroy
    \/ set_key_decoder
    \/ set_value_decoder
    \/ set_event_handler
    \/ set_error_handler
    \/ process_event
    \/ Rebalance

Spec == Init /\ [][Next]_vars

\* the same steps, with the run's counters kept
process_event_counted == ProcessEventStep /\ Count

Rebalance_counted == RebalanceStep /\ Count

NextCount ==
    \/ Construct
    \/ Destroy
    \/ set_key_decoder
    \/ set_value_decoder
    \/ set_event_handler
    \/ set_error_handler
    \/ process_event_counted
    \/ Rebalance_counted

SpecCount == Init /\ [][NextCount]_vars

\* the same steps, with the undecodable messages remembered
process_event_passed == ProcessEventStep /\ Passed

Rebalance_passed == RebalanceStep /\ Passed

NextPassed ==
    \/ Construct
    \/ Destroy
    \/ set_key_decoder
    \/ set_value_decoder
    \/ set_event_handler
    \/ set_error_handler
    \/ process_event_passed
    \/ Rebalance_passed

SpecPassed == Init /\ [][NextPassed]_vars

\* processors stacked on one Consumer, none of which has processed a message
single == <<client, config, processor, history, counters, passed, delivered, proviso, hook_threw>>

\* lines 238-246: CompactedTopicProcessor(Consumer&) on top of the live ones
ConstructStacked ==
    \E i \in Processors :
        /\ lifetimes[i] = "unborn"
        /\ originals' = [originals EXCEPT ![i] = SavedStacked(installed)]
        /\ installed' = InstalledStacked(i)
        /\ lifetimes' = [lifetimes EXCEPT ![i] = "alive"]
        /\ stack' = Append(stack, i)
        /\ calls' = <<>>
        /\ UNCHANGED <<in_order, single>>

\* lines 248-252: ~CompactedTopicProcessor() of any live processor
DestroyStacked ==
    \E i \in Processors :
        /\ lifetimes[i] = "alive"
        /\ installed' = RestoredStacked(i)
        /\ lifetimes' = [lifetimes EXCEPT ![i] = "destroyed"]
        /\ stack' = SelectSeq(stack, LAMBDA j : j # i)
        /\ in_order' = (in_order /\ i = stack[Len(stack)])
        /\ calls' = <<>>
        /\ UNCHANGED <<originals, single>>

\* Consumer::handle_rebalance: the client invokes the installed callback
RebalanceStacked ==
    /\ \E t \in Invoke(installed) : calls' = <<Called("rebalance", 0)>> \o t
    /\ UNCHANGED <<installed, originals, lifetimes, stack, in_order, single>>

NextStacked ==
    \/ ConstructStacked
    \/ DestroyStacked
    \/ RebalanceStacked

SpecStacked == Init /\ [][NextStacked]_vars

\* the same steps, with the assignment delivered to the hook remembered
process_event_delivered == ProcessEventStep /\ Delivered

Rebalance_delivered == RebalanceStep /\ Delivered

NextDelivered ==
    \/ Construct
    \/ Destroy
    \/ set_key_decoder
    \/ set_value_decoder
    \/ set_event_handler
    \/ set_error_handler
    \/ process_event_delivered
    \/ Rebalance_delivered

SpecDelivered == Init /\ [][NextDelivered]_vars

\* --------------------------------------------------------------- properties
IsEvent(e) == e.kind = "event"

\* the events dispatched by the last step, in order
Events == SelectSeq(trace, IsEvent)

\* how many effects of the last step satisfy Test
HowMany(Test(_)) == Len(SelectSeq(trace, Test))

\* the last step was process_event and poll() returned a message without error
ProcessedMessage == op = "process_event" /\ message.kind = "ok"

\* the last step was a rebalance delivered to the live processor's hook
HookRan == op = "rebalance" /\ assignment_callback_ = "hook" /\ lifetime = "alive"

\* the offset the list gives tp
RequestedOffset(list, tp) ==
    (CHOOSE e \in {list[i] : i \in 1..Len(list)} : e.tp = tp).offset

\* C1: after process_event has handled a non-error message with offset O for
\* partition P, partition_offsets_[P] = O, whether or not its key and its value decode
\* and also for a tombstone.
C1_OffsetRecorded ==
    (ProcessedMessage /\ ~threw) =>
        /\ message.tp \in DOMAIN partition_offsets_
        /\ partition_offsets_[message.tp] = message.offset

\* a message whose key does not decode has been handled, and its offset is the
\* new entry of its partition
C1_Witness ==
    /\ ProcessedMessage /\ ~threw
    /\ KeyDecoder(message.key) = None
    /\ Events = <<>>
    /\ message.tp \in DOMAIN pre_offsets
    /\ pre_offsets[message.tp] # message.offset
    /\ partition_offsets_[message.tp] = message.offset

C3_Clear ==
    /\ (HookRan /\ ~threw) =>
          \A tp \in TopicPartitions :
            LET IsClear(e) == e = Dispatched(Event("CLEAR_ELEMENTS", tp, None, None))
            IN  IF tp \in (DOMAIN pre_offsets) \ ListPartitions(hook_out)
                THEN HowMany(IsClear) = 1 /\ tp \notin DOMAIN partition_offsets_
                ELSE HowMany(IsClear) = 0
    /\ \A tp \in (DOMAIN partition_offsets_) \ (DOMAIN pre_offsets) :
          ProcessedMessage /\ message.tp = tp

\* a rebalance left out a tracked partition: one CLEAR_ELEMENTS, the entry gone
C3_Witness ==
    /\ HookRan /\ ~threw
    /\ \E tp \in (DOMAIN pre_offsets) \ ListPartitions(hook_out) :
        /\ Events = <<Dispatched(Event("CLEAR_ELEMENTS", tp, None, None))>>
        /\ tp \notin DOMAIN partition_offsets_
        /\ partition_offsets_ # EmptyMap

\* C4: on every rebalance delivered to the hook, the callback the user had installed
\* before the processor was constructed is invoked exactly once, as the hook's first
\* effect: before any offset is overridden, any CLEAR_ELEMENTS dispatched, any entry
\* erased; without such a callback none is invoked.
C4_Chaining ==
    HookRan =>
        LET IsChain(e) == e.kind = "user_callback"
        IN  IF user_callback = "none" THEN HowMany(IsChain) = 0
            ELSE HowMany(IsChain) = 1 /\ trace[1].kind = "user_callback"

\* the chained callback ran first in a rebalance that overrode an offset,
\* dispatched a CLEAR_ELEMENTS and erased an entry
C4_Witness ==
    /\ HookRan /\ ~threw
    /\ Len(trace) = 4
    /\ trace[1].kind = "user_callback"
    /\ trace[2].kind = "set_offset"
    /\ trace[3].kind = "event"
    /\ trace[4].kind = "erase"

\* C5: once the processor is destroyed, the client's installed callback is the one
\* the user had installed before the construction, and a rebalance runs that callback
\* alone: no processor field is used, no event dispatched, no offset overridden.
C5_Teardown ==
    lifetime = "destroyed" =>
        /\ assignment_callback_ = user_callback
        /\ op = "rebalance" =>
              /\ IF user_callback = "none" THEN trace = <<>>
                 ELSE Len(trace) = 1 /\ trace[1].kind = "user_callback"
              /\ hook_out = UserCallback(hook_in, IF trace = <<>> THEN OFFSET_INVALID
                                                  ELSE trace[1].offset)
              /\ partition_offsets_ = pre_offsets
              /\ ~threw

\* a rebalance after the destruction ran the user's callback
C5_Witness ==
    /\ lifetime = "destroyed"
    /\ op = "rebalance"
    /\ hook_in # <<>>
    /\ trace = <<UserCallbackCalled(0)>>
    /\ assignment_callback_ = "user"

\* C6: a non-error message without payload whose key decodes never reaches the
\* value decoder and never yields SET_ELEMENT; handled, it yields exactly one event,
\* DELETE_ELEMENT(topic, partition, key).
C6_Tombstone ==
    (ProcessedMessage /\ ~HasPayload(message) /\ KeyDecoder(message.key) # None) =>
        LET IsValueDecoder(e) == e.kind = "value_decoder"
            IsSet(e) == IsEvent(e) /\ e.type = "SET_ELEMENT"
        IN  /\ HowMany(IsValueDecoder) = 0
            /\ HowMany(IsSet) = 0
            /\ ~threw => trace = <<Dispatched(Event("DELETE_ELEMENT", message.tp,
                                                    KeyDecoder(message.key), None))>>

\* a tombstone has been handled
C6_Witness ==
    /\ ProcessedMessage /\ ~threw
    /\ message.payload = ""
    /\ Events = <<Dispatched(Event("DELETE_ELEMENT", message.tp, "A", None))>>

\* C7: a handled non-error message with a payload yields exactly one event,
\* SET_ELEMENT(topic, partition, key, value) with the decoded key and value, when both
\* decode, and no event when the key or the value does not decode.
C7_SetOrNothing ==
    (ProcessedMessage /\ HasPayload(message) /\ ~threw) =>
        LET key == KeyDecoder(message.key)
            value == ValueDecoder(key, message.payload)
        IN  IF key # None /\ value # None
            THEN Events = <<Dispatched(Event("SET_ELEMENT", message.tp, key, value))>>
            ELSE Events = <<>>

\* a message whose key and value decode has been handled
C7_Witness ==
    /\ ProcessedMessage /\ ~threw
    /\ Events = <<Dispatched(Event("SET_ELEMENT", message.tp, "A", "X"))>>
    /\ message.key = "a" /\ message.payload = "x"

\* C8: an end-of-partition message leaves partition_offsets_ as it was and never
\* reaches the error handler; handled, it yields exactly one event,
\* REACHED_EOF(topic, partition).
C8_Eof ==
    (op = "process_event" /\ IsEof(message)) =>
        LET IsErrorHandler(e) == e.kind = "error_handler"
        IN  /\ partition_offsets_ = pre_offsets
            /\ HowMany(IsErrorHandler) = 0
            /\ ~threw => trace = <<Dispatched(Event("REACHED_EOF", message.tp, None, None))>>

\* end-of-partition has been handled for a tracked partition, with an error handler set
C8_Witness ==
    /\ op = "process_event" /\ IsEof(message) /\ ~threw
    /\ error_handler_
    /\ message.tp \in DOMAIN partition_offsets_
    /\ partition_offsets_[message.tp] # message.offset
    /\ Events = <<Dispatched(Event("REACHED_EOF", message.tp, None, None))>>

\* C9: a message with an error other than end-of-partition is given once to the error
\* handler when one is set and dropped otherwise; no event is dispatched,
\* partition_offsets_ stays as it was, nothing is thrown and process_event can run again.
C9_Error ==
    (op = "process_event" /\ message.kind = "error") =>
        /\ trace = IF error_handler_ THEN <<ErrorHandlerCalled(message)>> ELSE <<>>
        /\ partition_offsets_ = pre_offsets
        /\ ~threw
        /\ ENABLED process_event

\* an error has been dropped while a partition was tracked
C9_Witness ==
    /\ op = "process_event" /\ message.kind = "error"
    /\ ~error_handler_
    /\ trace = <<>>
    /\ partition_offsets_ # EmptyMap

\* C10 as stated: the events dispatched are at most the non-error messages polled
C10_DispatchedAtMostPolled == dispatched <= polled_ok

\* C10: the SET_ELEMENT and DELETE_ELEMENT events dispatched are at most the
\* non-error messages polled (REACHED_EOF and CLEAR_ELEMENTS come without one).
C10_SetDeleteAtMostPolled == dispatched_set_delete <= polled_ok

\* two messages polled, one of them skipped
C10_Witness == polled_ok = 2 /\ dispatched_set_delete = 1

\* C11: once process_event has handled an undecodable message of a partition, no
\* later process_event is handed that same message again, also after a rebalance
\* that keeps the partition and makes the client resume where the hook said.
C11_NeverRetried ==
    [][(op' = "process_event" /\ message'.kind = "ok") => message' # passed]_vars

\* C16: when a rebalance keeps a tracked partition, the hook returns its assignment
\* offset as the offset following the last one seen: the stored offset plus one.
C16_ResumeFollowing ==
    (HookRan /\ ~threw) =>
        \A tp \in ListPartitions(hook_out) \cap DOMAIN pre_offsets :
            RequestedOffset(hook_out, tp) = pre_offsets[tp] + 1

\* the last step was a process_event that got as far as dispatching an event:
\* end-of-partition, or a message decoded into SET_ELEMENT or DELETE_ELEMENT
ReachedDispatch ==
    /\ op = "process_event"
    /\ \/ IsEof(message)
       \/ /\ message.kind = "ok"
          /\ key_decoder_
          /\ KeyDecoder(message.key) # None
          /\ HasPayload(message) =>
                value_decoder_ /\ ValueDecoder(KeyDecoder(message.key), message.payload) # None

\* the tracked partitions the last rebalance left out
Revoked == (DOMAIN pre_offsets) \ ListPartitions(hook_out)

ChainedList ==
    IF trace # <<>> /\ trace[1].kind = "user_callback"
    THEN UserCallback(hook_in, trace[1].offset)
    ELSE hook_in

\* C14: a rebalance creates no entry and changes no stored offset: when the hook
\* returns, partition_offsets_ is the table it was entered with, restricted to the
\* partitions of the new assignment, and every untracked partition of the list has
\* the offset the chained callback, or without one the client, gave it.
C14_RebalanceFrame ==
    HookRan =>
        /\ \A tp \in DOMAIN partition_offsets_ :
              tp \in DOMAIN pre_offsets /\ partition_offsets_[tp] = pre_offsets[tp]
        /\ ~threw =>
              /\ DOMAIN partition_offsets_ = (DOMAIN pre_offsets) \cap ListPartitions(hook_out)
              /\ ListPartitions(hook_out) = ListPartitions(hook_in)
              /\ \A tp \in ListPartitions(hook_out) \ DOMAIN pre_offsets :
                    RequestedOffset(hook_out, tp) = RequestedOffset(ChainedList, tp)

\* a rebalance assigned a tracked partition and an untracked one for which the
\* chained callback had requested an offset: the request stands, no entry was made
C14_Witness ==
    /\ HookRan /\ ~threw
    /\ pre_offsets # EmptyMap
    /\ partition_offsets_ = pre_offsets
    /\ \E tp \in ListPartitions(hook_out) \ DOMAIN pre_offsets :
        /\ trace[1].kind = "user_callback"
        /\ trace[1].offset = 1
        /\ RequestedOffset(hook_out, tp) = 1
        /\ tp \notin DOMAIN partition_offsets_

\* C15: in one rebalance every partition tracked at entry is either resumed or
\* cleared, never both and never neither: a partition of the new assignment has its
\* offset overridden once, keeps its entry and gets no CLEAR_ELEMENTS; any other gets
\* no override and one CLEAR_ELEMENTS, dispatched before its entry is erased.
C15_ResumedOrCleared ==
    (HookRan /\ ~threw) =>
        \A tp \in DOMAIN pre_offsets :
            LET overrides == {i \in DOMAIN trace :
                                trace[i].kind = "set_offset" /\ trace[i].tp = tp}
                clears == {i \in DOMAIN trace :
                                trace[i] = Dispatched(Event("CLEAR_ELEMENTS", tp, None, None))}
                erases == {i \in DOMAIN trace : trace[i] = Erased(tp)}
            IN  IF tp \in ListPartitions(hook_out)
                THEN /\ Cardinality(overrides) = 1
                     /\ \A i \in overrides : trace[i] = OffsetSet(tp, pre_offsets[tp])
                     /\ clears = {} /\ erases = {}
                     /\ tp \in DOMAIN partition_offsets_
                ELSE /\ overrides = {}
                     /\ Cardinality(clears) = 1 /\ Cardinality(erases) = 1
                     /\ \A i \in clears : \A j \in erases : i < j
                     /\ tp \notin DOMAIN partition_offsets_

\* one rebalance resumed a partition and cleared the other
C15_Witness ==
    /\ HookRan /\ ~threw
    /\ \E kept \in DOMAIN pre_offsets : \E gone \in DOMAIN pre_offsets :
        /\ hook_out = <<Entry(kept, pre_offsets[kept])>>
        /\ trace = <<OffsetSet(kept, pre_offsets[kept]),
                     Dispatched(Event("CLEAR_ELEMENTS", gone, None, None)),
                     Erased(gone)>>
        /\ DOMAIN partition_offsets_ = {kept}

\* C17: while a partition stays tracked its stored offset never decreases, over
\* process_event and rebalance steps alike, and it is the offset of the last
\* non-error message handled for the partition: only such a message changes it,
\* and each one sets it.
C17_Monotonic ==
    /\ \A tp \in (DOMAIN pre_offsets) \cap (DOMAIN partition_offsets_) :
          /\ partition_offsets_[tp] >= pre_offsets[tp]
          /\ partition_offsets_[tp] # pre_offsets[tp] =>
                (ProcessedMessage /\ ~threw /\ message.tp = tp)
    /\ \A tp \in DOMAIN partition_offsets_ :
          (ProcessedMessage /\ ~threw /\ message.tp = tp) =>
                partition_offsets_[tp] = message.offset

\* with a user callback on the client and both partitions tracked, the stored
\* offset of one advanced from 0 to 1
C17_Witness ==
    /\ ProcessedMessage /\ ~threw
    /\ user_callback = "user"
    /\ message.tp \in DOMAIN pre_offsets
    /\ pre_offsets[message.tp] = 0
    /\ partition_offsets_[message.tp] = 1
    /\ Cardinality(DOMAIN partition_offsets_) = 2

\* C19: CLEAR_ELEMENTS(P) is only dispatched by a rebalance entered with P tracked,
\* once, and takes P's entry away; an entry only appears with a non-error message
\* handled for its partition. So each CLEAR_ELEMENTS(P) follows a non-error message
\* of P handled since the last one, and a partition that gave only end-of-partition,
\* errors or nothing gets none.
C19_ClearNeedsProgress ==
    /\ \A tp \in TopicPartitions :
          LET IsClear(e) == e = Dispatched(Event("CLEAR_ELEMENTS", tp, None, None))
          IN  IF HowMany(IsClear) = 0 THEN TRUE
              ELSE /\ HowMany(IsClear) = 1
                   /\ op = "rebalance"
                   /\ tp \in DOMAIN pre_offsets
                   /\ tp \notin DOMAIN partition_offsets_
    /\ \A tp \in (DOMAIN partition_offsets_) \ (DOMAIN pre_offsets) :
          ProcessedMessage /\ ~threw /\ message.tp = tp

\* a rebalance that revoked everything cleared both tracked partitions
C19_Witness ==
    /\ HookRan /\ ~threw
    /\ hook_in = <<>>
    /\ Len(Events) = 2
    /\ DOMAIN pre_offsets = TopicPartitions
    /\ partition_offsets_ = EmptyMap

HowManyCalls(Test(_)) == Len(SelectSeq(calls, Test))

\* C18: with processors stacked on one client and destroyed in reverse order of
\* construction, a rebalance invokes the hook of each live processor once and the
\* client's original callback once, and never the hook of a destroyed processor;
\* when the last one is destroyed the client's callback is the original one.
C18_Stacked ==
    in_order =>
        /\ calls # <<>> =>
              /\ \A i \in Processors :
                    LET IsHook(c) == c = Called("hook", i)
                        IsOwned(c) == c.owner = i
                    IN  IF lifetimes[i] = "alive"
                        THEN HowManyCalls(IsHook) = 1 /\ HowManyCalls(IsOwned) = 1
                        ELSE HowManyCalls(IsOwned) = 0
              /\ LET IsUser(c) == c.kind = "user"
                 IN  HowManyCalls(IsUser) = IF user_callback = "user" THEN 1 ELSE 0
        /\ stack = <<>> => installed = Callback(user_callback)

\* three processors were stacked, the last one destroyed, and a rebalance ran the
\* hooks of the other two, the later one first, and then the user's callback
C18_Witness ==
    /\ in_order
    /\ Len(stack) = 2
    /\ \E i \in Processors : lifetimes[i] = "destroyed"
    /\ calls = <<Called("rebalance", 0), Called("hook", stack[2]),
                 Called("hook", stack[1]), Called("user", 0)>>

====
